---- MODULE Spec2Model ----
(***************************************************************************)
(* Model of src/two_asset_frontier.py: the two-stock frontier computed by  *)
(* plot_two_stock_efficient_frontier (covariance, the parametric curve,    *)
(* the minimum-variance index, the inefficient/efficient split and the     *)
(* random illustrative portfolios).                                        *)
(*                                                                         *)
(* The code computes in IEEE 754 binary64 (Python float / numpy float64).  *)
(* The arithmetic is modelled bit for bit: a number is a sign, a 53-bit    *)
(* significand and an exponent, and every operation rounds to nearest,     *)
(* ties to even.  TLC's integers are 32 bits wide, so a significand is     *)
(* held as four 14-bit limbs, least significant first.  Overflow,          *)
(* underflow and subnormals are not modelled: no enumerated input comes    *)
(* near the exponent range.                                                *)
(***************************************************************************)
EXTENDS Integers, Sequences, FiniteSets, TLC

(***************************************************************************)
(* Natural numbers of any width: sequences of 14-bit limbs.                *)
(***************************************************************************)
Limb == 2^14

\* limb k of a, zero outside the sequence
L(a, k) == IF k \in 1..Len(a) THEN a[k] ELSE 0

\* the 14 bits of a that start at bit pos (bit 0 is the least significant)
Field(a, pos) ==
    LET q == pos \div 14
        r == pos % 14
    IN  (L(a, q + 1) \div 2^r) + (L(a, q + 2) % 2^r) * 2^(14 - r)

Bit(a, i) == IF i < 0 THEN 0 ELSE (L(a, i \div 14 + 1) \div 2^(i % 14)) % 2

\* some bit of a below bit p is set
StickyBelow(a, p) ==
    IF p <= 0 THEN FALSE
    ELSE LET q == p \div 14
             r == p % 14
         IN  (\E k \in 1..Len(a) : k <= q /\ a[k] # 0) \/ (L(a, q + 1) % 2^r # 0)

BitLenLimb(x) == Cardinality({k \in 0..13 : 2^k <= x})

BitLen(a) ==
    LET nz == {k \in 1..Len(a) : a[k] # 0}
    IN  IF nz = {} THEN 0
        ELSE LET t == CHOOSE k \in nz : \A j \in nz : j <= k
             IN  (t - 1) * 14 + BitLenLimb(a[t])

\* a * 2^d (d >= 0)
BigShl(a, d) ==
    [k \in 1..(Len(a) + d \div 14 + 1) |-> Field(a, 14 * (k - 1) - d)]

\* -1, 0, 1 as a < b, a = b, a > b
BigCmp(a, b) ==
    LET n == IF Len(a) > Len(b) THEN Len(a) ELSE Len(b)
        D == {k \in 1..n : L(a, k) # L(b, k)}
    IN  IF D = {} THEN 0
        ELSE LET t == CHOOSE k \in D : \A j \in D : j <= k
             IN  IF L(a, t) < L(b, t) THEN -1 ELSE 1

RECURSIVE AddFrom(_, _, _, _, _)
AddFrom(a, b, k, n, carry) ==
    IF k > n THEN <<carry>>
    ELSE LET t == L(a, k) + L(b, k) + carry
         IN  <<t % Limb>> \o AddFrom(a, b, k + 1, n, t \div Limb)

BigAdd(a, b) == AddFrom(a, b, 1, IF Len(a) > Len(b) THEN Len(a) ELSE Len(b), 0)

RECURSIVE SubFrom(_, _, _, _, _)
SubFrom(a, b, k, n, borrow) ==
    IF k > n THEN <<>>
    ELSE LET t == L(a, k) - L(b, k) - borrow
         IN  <<t % Limb>> \o SubFrom(a, b, k + 1, n, IF t < 0 THEN 1 ELSE 0)

\* a - b for a >= b
BigSub(a, b) == SubFrom(a, b, 1, IF Len(a) > Len(b) THEN Len(a) ELSE Len(b), 0)

\* the product of two four-limb numbers, eight limbs
Mul4(a, b) ==
    LET p1 == a[1] * b[1]
        p2 == a[1] * b[2] + a[2] * b[1] + p1 \div Limb
        p3 == a[1] * b[3] + a[2] * b[2] + a[3] * b[1] + p2 \div Limb
        p4 == a[1] * b[4] + a[2] * b[3] + a[3] * b[2] + a[4] * b[1] + p3 \div Limb
        p5 == a[2] * b[4] + a[3] * b[3] + a[4] * b[2] + p4 \div Limb
        p6 == a[3] * b[4] + a[4] * b[3] + p5 \div Limb
        p7 == a[4] * b[4] + p6 \div Limb
    IN  <<p1 % Limb, p2 % Limb, p3 % Limb, p4 % Limb, p5 % Limb, p6 % Limb,
          p7 % Limb, p7 \div Limb>>

(***************************************************************************)
(* binary64.  A finite number is [s, e, m]: (-1)^s * m * 2^e with m a       *)
(* four-limb significand, 2^52 <= m < 2^53, or m = 0 (and e = 0) for a      *)
(* signed zero.  NaN is the one value with s = 2.                          *)
(***************************************************************************)
Precision == 53

ZeroM == <<0, 0, 0, 0>>
NaN == [s |-> 2, e |-> 0, m |-> ZeroM]
FZero(s) == [s |-> s, e |-> 0, m |-> ZeroM]
IsNaN(x) == x.s = 2
IsZero(x) == x.s # 2 /\ x.m = ZeroM

\* m + 1 for a four-limb m
Inc4(m) ==
    LET c1 == m[1] + 1
        c2 == m[2] + c1 \div Limb
        c3 == m[3] + c2 \div Limb
        c4 == m[4] + c3 \div Limb
    IN  <<c1 % Limb, c2 % Limb, c3 % Limb, c4>>

\* (-1)^s * a * 2^e rounded to nearest, ties to even
RoundBig(s, a, e) ==
    LET n  == BitLen(a)
        sh == n - Precision
        m0 == <<Field(a, sh), Field(a, sh + 14), Field(a, sh + 28), Field(a, sh + 42)>>
        up == /\ sh > 0
              /\ Bit(a, sh - 1) = 1
              /\ (StickyBelow(a, sh - 1) \/ m0[1] % 2 = 1)
        m1 == IF up THEN Inc4(m0) ELSE m0
    IN  IF n = 0 THEN FZero(s)
        ELSE IF m1[4] = 2^11 THEN [s |-> s, e |-> e + sh + 1, m |-> <<0, 0, 0, 2^10>>]
        ELSE [s |-> s, e |-> e + sh, m |-> m1]

FNeg(x) == IF IsNaN(x) THEN x ELSE [x EXCEPT !.s = 1 - x.s]

FMul(x, y) ==
    IF IsNaN(x) \/ IsNaN(y) THEN NaN
    ELSE IF IsZero(x) \/ IsZero(y) THEN FZero((x.s + y.s) % 2)
    ELSE RoundBig((x.s + y.s) % 2, Mul4(x.m, y.m), x.e + y.e)

FAdd(x, y) ==
    IF IsNaN(x) \/ IsNaN(y) THEN NaN
    ELSE IF IsZero(x) /\ IsZero(y) THEN FZero(IF x.s = 1 /\ y.s = 1 THEN 1 ELSE 0)
    ELSE IF IsZero(x) THEN y
    ELSE IF IsZero(y) THEN x
    ELSE IF x.e - y.e > 60 THEN x
    ELSE IF y.e - x.e > 60 THEN y
    ELSE LET e == IF x.e < y.e THEN x.e ELSE y.e
             A == BigShl(x.m, x.e - e)
             B == BigShl(y.m, y.e - e)
             c == BigCmp(A, B)
         IN  IF x.s = y.s THEN RoundBig(x.s, BigAdd(A, B), e)
             ELSE IF c = 0 THEN FZero(0)
             ELSE IF c > 0 THEN RoundBig(x.s, BigSub(A, B), e)
             ELSE RoundBig(y.s, BigSub(B, A), e)

FSub(x, y) == FAdd(x, FNeg(y))

\* x < y, x <= y and x = y as the comparison operators of floats: false on NaN
FCmp(x, y) ==
    IF IsZero(x) /\ IsZero(y) THEN 0
    ELSE IF IsZero(x) THEN (IF y.s = 1 THEN 1 ELSE -1)
    ELSE IF IsZero(y) THEN (IF x.s = 1 THEN -1 ELSE 1)
    ELSE IF x.s # y.s THEN (IF x.s = 1 THEN -1 ELSE 1)
    ELSE LET mag == IF x.e # y.e THEN (IF x.e < y.e THEN -1 ELSE 1)
                    ELSE BigCmp(x.m, y.m)
         IN  IF x.s = 1 THEN 0 - mag ELSE mag

FLt(x, y) == ~IsNaN(x) /\ ~IsNaN(y) /\ FCmp(x, y) < 0
FLe(x, y) == ~IsNaN(x) /\ ~IsNaN(y) /\ FCmp(x, y) <= 0
FEq(x, y) == ~IsNaN(x) /\ ~IsNaN(y) /\ FCmp(x, y) = 0

\* the largest r with r * r <= n, for n < 2^28, given its bits above `bit`
RECURSIVE ISqrtBits(_, _, _)
ISqrtBits(n, root, bit) ==
    IF bit < 0 THEN root
    ELSE LET c == root + 2^bit
         IN  ISqrtBits(n, IF c * c <= n THEN c ELSE root, bit - 1)

\* <<quotient, remainder>> of (rem * 2^(bit + 1) + the bits bit..0 of a) by d,
\* for rem < d < 2^29
RECURSIVE DivBits(_, _, _, _)
DivBits(rem, a, d, bit) ==
    IF bit < 0 THEN <<0, rem>>
    ELSE LET cur  == 2 * rem + ((a \div 2^bit) % 2)
             t    == IF cur >= d THEN 1 ELSE 0
             rest == DivBits(cur - t * d, a, d, bit - 1)
         IN  <<t * 2^bit + rest[1], rest[2]>>

(***************************************************************************)
(* The integer square root of an eight-limb N >= 2^110, by halves: the     *)
(* root s and remainder r of the top quarter come bit by bit; dividing     *)
(* r * b + (the next digit) by 2 * s gives as many bits of the root again,  *)
(* one too many at most, which the sign of the new remainder tells.        *)
(***************************************************************************)
\* <<s, n - s * s>>
WithRemainder(n, s) == <<s, n - s * s>>

\* s * b + q as <<root, remainder>> when its remainder c is >= 0, else one less
Corrected(sq, c) == IF c < 0 THEN <<sq - 1, c + 2 * (sq - 1) + 1>> ELSE <<sq, c>>

\* the root and remainder of n * b^2 + a1 * b + a0 from sr, those of n; b = 2^14
SqrtStep(sr, q, u, a0) == Corrected(sr[1] * Limb + q, u * Limb + a0 - q * q)
SqrtHalf(sr, a1, a0) ==
    SqrtStep(sr, (sr[2] * Limb + a1) \div (2 * sr[1]), (sr[2] * Limb + a1) % (2 * sr[1]), a0)

\* s * 2^28 + q as four limbs
Joined(s, q) ==
    SubSeq(BigAdd(<<0, 0, s % Limb, s \div Limb>>,
                  <<q % Limb, (q \div Limb) % Limb, q \div (Limb * Limb)>>), 1, 4)

\* the root s of N, or s - 1 when s * s exceeds N
Fitted(N, s) == IF BigCmp(Mul4(s, s), N) <= 0 THEN s ELSE SubSeq(BigSub(s, <<1>>), 1, 4)

\* the root of N from sr, the root and remainder of its top half
SqrtFull(N, sr, qr) == Fitted(N, Joined(sr[1], (sr[2] \div (2 * sr[1])) * 2^28 + qr[1]))

BigSqrtFrom(N, sr) ==
    SqrtFull(N, sr, DivBits(sr[2] % (2 * sr[1]), N[4] * Limb + N[3], 2 * sr[1], 27))

BigSqrt(N) ==
    BigSqrtFrom(N, SqrtHalf(WithRemainder(N[8] * Limb + N[7],
                                          ISqrtBits(N[8] * Limb + N[7], 0, 13)),
                            N[6], N[5]))

\* the float of the root r of N = x.m * 2^(58 + odd), a sticky bit appended
RootRounded(x, N, r) ==
    RoundBig(0, BigAdd(BigShl(r, 1), <<IF Mul4(r, r) = N THEN 0 ELSE 1>>),
             (x.e - (x.e % 2) - 58) \div 2 - 1)

SqrtOf(x, N) == RootRounded(x, N, BigSqrt(N))

\* the square root, correctly rounded; NaN for a negative number
FSqrt(x) ==
    IF IsNaN(x) THEN NaN
    ELSE IF IsZero(x) THEN x
    ELSE IF x.s = 1 THEN NaN
    ELSE SqrtOf(x, BigShl(x.m, 58 + (x.e % 2)))

\* a \div d and a % d for 1 <= d < 2^14, limb k downward, rem the remainder so far
RECURSIVE DivFrom(_, _, _, _)
DivFrom(a, d, k, rem) ==
    IF k = 0 THEN <<<<>>, rem>>
    ELSE LET cur  == rem * Limb + a[k]
             rest == DivFrom(a, d, k - 1, cur % d)
         IN  <<Append(rest[1], cur \div d), rest[2]>>

\* x / d, correctly rounded, for an integer 1 <= d < 2^14
FDivInt(x, d) ==
    IF IsNaN(x) \/ IsZero(x) THEN x
    ELSE LET N    == BigShl(x.m, 28)
             qr   == DivFrom(N, d, Len(N), 0)
             tail == IF qr[2] = 0 THEN 0 ELSE 1
         IN  RoundBig(x.s, BigAdd(BigShl(qr[1], 1), <<tail>>), x.e - 29)

\* the float of an integer 0 <= i < 2^14
FromInt(i) == RoundBig(0, <<i>>, 0)

\* the float a decimal literal k/100 denotes (the nearest one), k an integer
Hundredths(k) == IF k < 0 THEN FNeg(FDivInt(FromInt(0 - k), 100)) ELSE FDivInt(FromInt(k), 100)

One == FromInt(1)
Two == FromInt(2)

\* x ** 2: the correctly rounded square
FSquare(x) == FMul(x, x)

(***************************************************************************)
(* numpy                                                                   *)
(***************************************************************************)
n_points == 200

\* mutant of linspace: endpoint=False, the step is 1 / num and 1 is not reached
linspaceNoEndpoint(num) ==
    LET step == FDivInt(One, num)
    IN  [i \in 1..num |-> FMul(FromInt(i - 1), step)]

\* np.linspace(0, 1, num): step = 1 / (num - 1), y[i] = i * step, y[-1] = 1
linspace(num) ==
    LET step == FDivInt(One, num - 1)
    IN  [i \in 1..num |-> IF i = num THEN One ELSE FMul(FromInt(i - 1), step)]

\* mutant of ScanStep: the scan moves on a value that is equal, too (x <= v[p]),
\* so the last of several least values wins
ScanStepLastMin(v, l, r) ==
    IF IsNaN(v[l]) THEN l
    ELSE IF IsNaN(v[r]) \/ FLe(v[r], v[l]) THEN r
    ELSE l

\* np.argmin over v[lo..hi], as a 1-based position: the first NaN when there is
\* one, else the first position of the least value.  The scan keeps position p
\* until a later value x has  not (x >= v[p]).
ScanStep(v, l, r) ==
    IF IsNaN(v[l]) THEN l
    ELSE IF IsNaN(v[r]) \/ FLt(v[r], v[l]) THEN r
    ELSE l

RECURSIVE ArgMinIn(_, _, _)
ArgMinIn(v, lo, hi) ==
    IF lo = hi THEN lo
    ELSE LET mid == (lo + hi) \div 2
         IN  ScanStep(v, ArgMinIn(v, lo, mid), ArgMinIn(v, mid + 1, hi))

\* mutant of argmin: np.argmax, the first position of the greatest value
RECURSIVE ArgMaxIn(_, _, _)
ArgMaxIn(v, lo, hi) ==
    IF lo = hi THEN lo
    ELSE LET mid == (lo + hi) \div 2
             l   == ArgMaxIn(v, lo, mid)
             r   == ArgMaxIn(v, mid + 1, hi)
         IN  IF IsNaN(v[l]) THEN l
             ELSE IF IsNaN(v[r]) \/ FLt(v[l], v[r]) THEN r
             ELSE l

argmax(v) == ArgMaxIn(v, 1, Len(v)) - 1

\* np.argmin(v), 0-based as in the code
argmin(v) == ArgMinIn(v, 1, Len(v)) - 1

(***************************************************************************)
(* plot_two_stock_efficient_frontier                                       *)
(***************************************************************************)
\* w * mu_A + (1 - w) * mu_B
Return(w, muA, muB) == FAdd(FMul(w, muA), FMul(FSub(One, w), muB))

\* (w**2)*(sigma_A**2) + ((1-w)**2)*(sigma_B**2) + 2*w*(1-w)*cov_AB
Variance(w, sA, sB, cov) ==
    FAdd(FAdd(FMul(FSquare(w), FSquare(sA)),
              FMul(FSquare(FSub(One, w)), FSquare(sB))),
         FMul(FMul(FMul(Two, w), FSub(One, w)), cov))

\* np.sqrt(p_var): no clamp is applied to p_var
Stdev(p_var) == FSqrt(p_var)

\* mutant of Covariance: sigma_A twice
CovarianceSigmaATwice(corr, sA, sB) == FMul(FMul(corr, sA), sA)

\* corr_AB * sigma_A * sigma_B
Covariance(corr, sA, sB) == FMul(FMul(corr, sA), sB)

\* mutant of InefSlice: v[:idx_min], without the minimum-variance point
InefSliceExclusive(v, idx) == SubSeq(v, 1, idx)

\* v[:idx_min+1] and v[idx_min:]
InefSlice(v, idx) == SubSeq(v, 1, idx + 1)
EfSlice(v, idx) == SubSeq(v, idx + 1, Len(v))

(***************************************************************************)
(* The arguments the function is called with.  main passes the slider      *)
(* values (defaults 0.10, 0.15, 0.20, 0.30, 0.20); the function itself     *)
(* takes any five floats, so the enumeration also holds arguments beyond   *)
(* the sliders' ranges: zero volatilities, a pair of volatilities whose    *)
(* zero-variance weight is a sampled weight, a negative volatility and a   *)
(* correlation above 1.                                                    *)
(***************************************************************************)
MuPairs == {<<Hundredths(10), Hundredths(15)>>, <<Hundredths(15), Hundredths(10)>>,
            <<Hundredths(10), Hundredths(10)>>}
SigmaPairs == {<<Hundredths(20), Hundredths(30)>>, <<Hundredths(20), Hundredths(20)>>,
               <<Hundredths(0), Hundredths(0)>>, <<Hundredths(14), Hundredths(185)>>,
               <<Hundredths(-20), Hundredths(30)>>}
Corrs == {Hundredths(-100), Hundredths(20), Hundredths(100), Hundredths(150)}

\* the number of random portfolios drawn (n_portfolios, 3000 in the code) and
\* the weights np.random.rand may return, a few of the floats of [0, 1)
MaxPortfolios == 2
RandWeights == {Hundredths(50), FMul(FromInt(185), FDivInt(One, n_points - 1))}

VARIABLES mu_A, mu_B, sigma_A, sigma_B, corr_AB,
          pc, cov_AB, weights, port_returns, port_stdevs,
          idx_min, mvp_x, mvp_y, x_inef, y_inef, x_ef, y_ef,
          rand_w, rand_returns, rand_stdevs

args == <<mu_A, mu_B, sigma_A, sigma_B, corr_AB>>
frontier == <<cov_AB, weights, port_returns, port_stdevs>>
mvp == <<idx_min, mvp_x, mvp_y>>
segments == <<x_inef, y_inef, x_ef, y_ef>>
random == <<rand_w, rand_returns, rand_stdevs>>
vars == <<args, pc, frontier, mvp, segments, random>>

\* the call: nothing is computed yet
Init ==
    /\ \E mu \in MuPairs : mu_A = mu[1] /\ mu_B = mu[2]
    /\ \E sg \in SigmaPairs : sigma_A = sg[1] /\ sigma_B = sg[2]
    /\ corr_AB \in Corrs
    /\ pc = "covariance"
    /\ cov_AB = NaN
    /\ weights = <<>>
    /\ port_returns = <<>>
    /\ port_stdevs = <<>>
    /\ idx_min = -1
    /\ mvp_x = NaN
    /\ mvp_y = NaN
    /\ x_inef = <<>>
    /\ y_inef = <<>>
    /\ x_ef = <<>>
    /\ y_ef = <<>>
    /\ rand_w = <<>>
    /\ rand_returns = <<>>
    /\ rand_stdevs = <<>>

\* 1) the covariance, and the weights of 2)
ComputeCovariance ==
    /\ pc = "covariance"
    /\ cov_AB' = Covariance(corr_AB, sigma_A, sigma_B)
    /\ weights' = linspace(n_points)
    /\ pc' = "frontier"
    /\ UNCHANGED <<args, port_returns, port_stdevs, mvp, segments, random>>

\* 2) one turn of `for w in weights`
FrontierPoint ==
    /\ pc = "frontier"
    /\ Len(port_stdevs) < Len(weights)
    /\ LET w == weights[Len(port_stdevs) + 1]
           p_return == Return(w, mu_A, mu_B)
           p_var == Variance(w, sigma_A, sigma_B, cov_AB)
       IN  /\ port_returns' = Append(port_returns, p_return)
           /\ port_stdevs' = Append(port_stdevs, Stdev(p_var))
    /\ UNCHANGED <<args, pc, cov_AB, weights, mvp, segments, random>>

\* 3) the minimum-variance portfolio, once the loop has ended
MinimumVariance ==
    /\ pc = "frontier"
    /\ Len(port_stdevs) = Len(weights)
    /\ idx_min' = argmin(port_stdevs)
    /\ mvp_x' = port_stdevs[idx_min' + 1]
    /\ mvp_y' = port_returns[idx_min' + 1]
    /\ pc' = "split"
    /\ UNCHANGED <<args, frontier, segments, random>>

\* 4) the two segments
Split ==
    /\ pc = "split"
    /\ x_inef' = InefSlice(port_stdevs, idx_min)
    /\ y_inef' = InefSlice(port_returns, idx_min)
    /\ x_ef' = EfSlice(port_stdevs, idx_min)
    /\ y_ef' = EfSlice(port_returns, idx_min)
    /\ pc' = "random"
    /\ UNCHANGED <<args, frontier, mvp, random>>

\* 5) np.random.rand(n_portfolios)
DrawRandomWeights ==
    /\ pc = "random"
    /\ rand_w' \in [1..MaxPortfolios -> RandWeights]
    /\ pc' = "portfolios"
    /\ UNCHANGED <<args, frontier, mvp, segments, rand_returns, rand_stdevs>>

\* mutant of RandomPortfolio: the random portfolio is appended to the curve's lists
RandomPortfolioIntoCurve ==
    /\ pc = "portfolios"
    /\ Len(rand_stdevs) < Len(rand_w)
    /\ LET w == rand_w[Len(rand_stdevs) + 1]
           rp_return == Return(w, mu_A, mu_B)
           rp_var == Variance(w, sigma_A, sigma_B, cov_AB)
       IN  /\ rand_returns' = Append(rand_returns, rp_return)
           /\ rand_stdevs' = Append(rand_stdevs, Stdev(rp_var))
           /\ port_returns' = Append(port_returns, rp_return)
           /\ port_stdevs' = Append(port_stdevs, Stdev(rp_var))
    /\ UNCHANGED <<args, pc, cov_AB, weights, mvp, segments, rand_w>>

\* 5) one turn of `for w in rand_w`
RandomPortfolio ==
    /\ pc = "portfolios"
    /\ Len(rand_stdevs) < Len(rand_w)
    /\ LET w == rand_w[Len(rand_stdevs) + 1]
           rp_return == Return(w, mu_A, mu_B)
           rp_var == Variance(w, sigma_A, sigma_B, cov_AB)
       IN  /\ rand_returns' = Append(rand_returns, rp_return)
           /\ rand_stdevs' = Append(rand_stdevs, Stdev(rp_var))
    /\ UNCHANGED <<args, pc, frontier, mvp, segments, rand_w>>

\* 6) the plot: x_inef, y_inef drawn dashed as 'Inefficient', x_ef, y_ef solid as
\* 'Efficient Frontier', mvp_x, mvp_y as the 'Minimum-Variance Portfolio'
Plot ==
    /\ pc = "portfolios"
    /\ Len(rand_stdevs) = Len(rand_w)
    /\ pc' = "done"
    /\ UNCHANGED <<args, frontier, mvp, segments, random>>

Next ==
    \/ ComputeCovariance
    \/ FrontierPoint
    \/ MinimumVariance
    \/ Split
    \/ DrawRandomWeights
    \/ RandomPortfolio
    \/ Plot

Spec == Init /\ [][Next]_vars

(***************************************************************************)
(* Properties                                                              *)
(***************************************************************************)
\* the arguments the specification calls valid: volatilities >= 0, correlation
\* in [-1, 1]
Valid ==
    /\ FLe(FZero(0), sigma_A)
    /\ FLe(FZero(0), sigma_B)
    /\ FLe(FNeg(One), corr_AB)
    /\ FLe(corr_AB, One)

Defaults ==
    /\ mu_A = Hundredths(10)
    /\ mu_B = Hundredths(15)
    /\ sigma_A = Hundredths(20)
    /\ sigma_B = Hundredths(30)
    /\ corr_AB = Hundredths(20)

CurveDone == Len(port_stdevs) = n_points
MvpDone == pc \in {"split", "random", "portfolios", "done"}
SplitDone == pc \in {"random", "portfolios", "done"}
NoNaN(v) == \A i \in 1..Len(v) : ~IsNaN(v[i])
FAbs(x) == IF IsNaN(x) THEN x ELSE [x EXCEPT !.s = 0]
\* 2^k for k < 0
TwoTo(k) == RoundBig(0, <<1>>, k)

\* C1: for valid arguments the inefficient segment is the curve up to and
\* including the minimum-variance index and the efficient segment the curve from
\* that index on: both are non-empty, they share that one point, their lengths
\* sum to the number of points plus one, and the inefficient segment followed by
\* the efficient one without its first point is the curve.
C1_SegmentsCoverCurve ==
    (Valid /\ SplitDone) =>
        /\ Len(x_inef) = idx_min + 1
        /\ Len(x_inef) >= 1 /\ Len(x_ef) >= 1
        /\ Len(y_inef) = Len(x_inef) /\ Len(y_ef) = Len(x_ef)
        /\ Len(x_inef) + Len(x_ef) = n_points + 1
        /\ x_inef[Len(x_inef)] = x_ef[1] /\ y_inef[Len(y_inef)] = y_ef[1]
        /\ x_inef \o Tail(x_ef) = port_stdevs
        /\ y_inef \o Tail(y_ef) = port_returns

C1_Witness ==
    /\ pc = "done" /\ Valid
    /\ idx_min > 0 /\ idx_min < n_points - 1
    /\ Len(x_inef) = idx_min + 1 /\ Len(x_ef) = n_points - idx_min

\* C2: for valid arguments the minimum-variance point is a point of the curve
\* and its standard deviation is <= that of every point of the curve.
C2_MinVarianceIsLeast ==
    (Valid /\ MvpDone) =>
        /\ \E i \in 1..n_points : mvp_x = port_stdevs[i] /\ mvp_y = port_returns[i]
        /\ \A i \in 1..n_points : FLe(mvp_x, port_stdevs[i])

\* C3: arguments that are not valid are rejected before any point is computed:
\* no point of the curve is ever computed and the computation never completes.
C3_InvalidRejected ==
    ~Valid => (port_stdevs = <<>> /\ port_returns = <<>> /\ pc # "done")

\* C4: for valid arguments every standard deviation, of the curve and of the
\* random portfolios, is a number >= 0, never NaN (no negative number reaches
\* the square root).
C4_StdevNeverNaN ==
    Valid =>
        /\ \A i \in 1..Len(port_stdevs) : FLe(FZero(0), port_stdevs[i])
        /\ \A i \in 1..Len(rand_stdevs) : FLe(FZero(0), rand_stdevs[i])

\* C5: for valid arguments the weights ascend from 0 to 1 in equal steps (equal
\* to within the rounding of one weight), the first point of the curve is
\* (sigma_B, mu_B) and the last is (sigma_A, mu_A).
C5_EndpointsAndSpacing ==
    (Valid /\ CurveDone) =>
        /\ Len(weights) = n_points /\ Len(port_returns) = n_points
        /\ FEq(weights[1], FZero(0)) /\ FEq(weights[n_points], One)
        /\ \A i \in 1..(n_points - 1) :
              /\ FLt(weights[i], weights[i + 1])
              /\ FLe(FAbs(FSub(FSub(weights[i + 1], weights[i]),
                               FDivInt(One, n_points - 1))), TwoTo(-52))
        /\ FEq(port_returns[1], mu_B) /\ FEq(port_stdevs[1], sigma_B)
        /\ FEq(port_returns[n_points], mu_A) /\ FEq(port_stdevs[n_points], sigma_A)

C5_Witness ==
    /\ pc = "done" /\ Valid
    /\ ~FEq(mu_A, mu_B) /\ ~FEq(sigma_A, sigma_B) /\ ~IsZero(sigma_B)
    /\ FEq(port_stdevs[1], sigma_B) /\ FEq(port_stdevs[n_points], sigma_A)

\* C6: for valid arguments every point of the efficient segment is efficient:
\* no point of the curve has a strictly higher return at an equal or lower
\* standard deviation.
C6_EfficientSegmentIsEfficient ==
    (Valid /\ pc = "done") =>
        \A i \in (idx_min + 1)..n_points : \A j \in 1..n_points :
            ~(FLt(port_returns[i], port_returns[j]) /\ FLe(port_stdevs[j], port_stdevs[i]))

\* C7: the random portfolios have no influence on the curve, the
\* minimum-variance point or the segments: no step of drawing the random weights
\* or computing a random portfolio changes any of them.
C7_RandomDrawHasNoInfluence ==
    [][(pc \in {"random", "portfolios"}) => (UNCHANGED <<args, frontier, mvp, segments>>)]_vars

C7_Witness ==
    /\ pc = "done"
    /\ Len(rand_stdevs) = MaxPortfolios
    /\ rand_w[1] # rand_w[MaxPortfolios]
    /\ Len(port_stdevs) = n_points /\ Len(x_inef) + Len(x_ef) = n_points + 1

\* C8: when the least standard deviation occurs at several weights the
\* minimum-variance index is the first of them; with both volatilities zero and a
\* correlation in [-1, 1] every standard deviation is zero, the index is 0, the
\* inefficient segment is the one point at weight 0 and the efficient segment is
\* the whole curve.
C8_FirstMinimumWins ==
    /\ (MvpDone /\ NoNaN(port_stdevs)) =>
          /\ \A j \in 1..n_points : FLe(mvp_x, port_stdevs[j])
          /\ \A j \in 1..idx_min : FLt(mvp_x, port_stdevs[j])
    /\ (MvpDone /\ Valid /\ IsZero(sigma_A) /\ IsZero(sigma_B)) =>
          /\ \A j \in 1..n_points : IsZero(port_stdevs[j])
          /\ idx_min = 0
          /\ SplitDone => (Len(x_inef) = 1 /\ x_ef = port_stdevs /\ y_ef = port_returns)

C8_Witness ==
    /\ pc = "done" /\ Valid
    /\ IsZero(sigma_A) /\ IsZero(sigma_B)
    /\ idx_min = 0 /\ Len(x_inef) = 1 /\ Len(x_ef) = n_points

\* the same with a tie among non-zero standard deviations
C8_TieWitness ==
    /\ pc = "done" /\ Valid /\ ~IsZero(mvp_x)
    /\ \E j \in (idx_min + 2)..n_points : FEq(port_stdevs[j], mvp_x)

\* C9: with correlation 1 and sigma_A < sigma_B the standard deviation is
\* linear in the weight (w * sigma_A + (1 - w) * sigma_B, to within rounding),
\* the minimum-variance point is the last point of the curve, the inefficient
\* segment is the whole curve and the efficient segment that one point.
C9_PerfectCorrelation ==
    (pc = "done" /\ Valid /\ FEq(corr_AB, One) /\ FLt(sigma_A, sigma_B)) =>
        /\ \A i \in 1..n_points :
              FLe(FAbs(FSub(port_stdevs[i],
                            FAdd(FMul(weights[i], sigma_A),
                                 FMul(FSub(One, weights[i]), sigma_B)))), TwoTo(-50))
        /\ idx_min = n_points - 1
        /\ FEq(mvp_x, sigma_A)
        /\ x_inef = port_stdevs /\ y_inef = port_returns
        /\ Len(x_ef) = 1 /\ Len(y_ef) = 1

C9_Witness ==
    /\ pc = "done"
    /\ corr_AB = One /\ sigma_A = Hundredths(20) /\ sigma_B = Hundredths(30)
    /\ idx_min = n_points - 1 /\ Len(x_ef) = 1

\* C10: for the sliders' default values the minimum-variance point has a
\* standard deviation below both 0.20 and 0.30 at a weight strictly between 0
\* and 1: the index is neither the first nor the last and both segments hold
\* more than one point.
C10_DefaultsInteriorMinimum ==
    (Defaults /\ SplitDone) =>
        /\ FLt(mvp_x, Hundredths(20)) /\ FLt(mvp_x, Hundredths(30))
        /\ idx_min > 0 /\ idx_min < n_points - 1
        /\ FLt(FZero(0), weights[idx_min + 1]) /\ FLt(weights[idx_min + 1], One)
        /\ Len(x_inef) > 1 /\ Len(x_ef) > 1

C10_Witness ==
    /\ pc = "done" /\ Defaults
    /\ idx_min = 146
    /\ FLt(mvp_x, sigma_A)

====
